---- MODULE Spec2Model ----
(***************************************************************************)
(* State variables of the linuxautomaton trace analyser (sv.py): the I/O   *)
(* request objects (syscall-level and block-level), the file descriptors   *)
(* they refer to and the per-CPU soft interrupt records, driven by a       *)
(* stream of timestamped trace events.                                     *)
(*                                                                         *)
(* A Python object is a record of its attributes; an attribute that holds  *)
(* None is the empty tuple and a set attribute is a one-element tuple.     *)
(* An event is a record of its timestamp, its name and its payload fields; *)
(* "'family' in event" is membership in the record's domain.               *)
(***************************************************************************)
EXTENDS Integers, Sequences, FiniteSets, TLC

VARIABLES
    now,       \* timestamp of the event being replayed
    io_rq,     \* the traced task's current_syscall.io_rq: None or a request
    log,       \* how io_rq was built, the number of exit events routed to
               \* it and the last of them
    blk,       \* the block request issued on the traced sector, or None
    blklog,    \* its issue event and whether a complete event was routed to it
    raised,    \* None, or the call that raised and its exception
    softirqs,  \* CPU.current_softirqs of each CPU: vec -> list of SoftIRQ
    irqlog,    \* the softirq events replayed so far, per CPU and vector
    current_syscall,  \* the traced task's current_syscall: None or a
               \* SyscallEvent (its io_rq attribute is the variable io_rq)
    fdobjs,    \* the FD objects made so far: a source FD and its duplicates
    lists,     \* the list objects made so far; an FD's iorequests attribute
               \* is the position of its list in here
    fdlog,     \* per FD object: the identity it was made with, the bytes
               \* transferred on it and the requests recorded on it
    pending,   \* Disk.pending_requests: sector -> None or a block request
    disklog    \* the last block event handled on the disk and its outcome

fdvars == <<fdobjs, lists, fdlog>>
diskvars == <<pending, disklog>>

vars == <<now, io_rq, log, blk, blklog, raised, softirqs, irqlog,
          current_syscall, fdvars, diskvars>>

----------------------------------------------------------------------------
(* Bounds of the model *)

\* the last timestamp of the trace
MaxTs == 2
\* the number of exit events routed to one syscall request
MaxExits == 1
\* the number of softirq events replayed on one vector of one CPU
MaxIrqEvents == 3
\* the bytes transferred on one FD object
MaxXfer == 2
\* the requests recorded in the history of one FD object
MaxHist == 1

----------------------------------------------------------------------------
(* Python values *)

None == <<>>
Some(v) == <<v>>
Val(o) == o[1]
\* a Python str that is not built by formatting
Str(s) == <<s>>

HasAttr(obj, a) == a \in DOMAIN obj

\* the outcome of a call: the returned value, or the exception it raised
Ok(v) == [ok |-> TRUE, val |-> v]
Raise(e) == [ok |-> FALSE, exc |-> e]

RECURSIVE BitAnd(_, _)
\* Python's & on non-negative integers
BitAnd(a, b) ==
    IF a = 0 \/ b = 0 THEN 0
    ELSE 2 * BitAnd(a \div 2, b \div 2) + (IF a % 2 = 1 /\ b % 2 = 1 THEN 1 ELSE 0)

----------------------------------------------------------------------------
(* Constants of the program *)

FDType_unknown == 0
FDType_disk == 1
FDType_net == 2
FDType_maybe_net == 3

OP_OPEN == 1
OP_READ == 2
OP_WRITE == 3
OP_CLOSE == 4
OP_SYNC == 5

SECTOR_SIZE == 512

AF_UNSPEC == 0
AF_UNIX == 1
AF_INET == 2

\* common.O_CLOEXEC, 0o2000000
O_CLOEXEC == 524288

READ_SYSCALLS == {"read", "recvmsg", "recvfrom", "splice", "readv", "sendfile64"}
WRITE_SYSCALLS == {"write", "sendmsg", "sendto", "writev"}
DISK_OPEN_SYSCALLS == {"open", "openat"}
DUP_OPEN_SYSCALLS == {"fcntl", "dup", "dup2", "dup3"}

----------------------------------------------------------------------------
(* Helpers of linuxautomaton.common *)

\* an event name is its tracer prefix and the syscall's name; the prefix is
\* stripped
get_syscall_name(event) == event.name[2]

\* the four octets of an address, joined by dots
get_v4_addr_str(ip) == <<ip[1], ".", ip[2], ".", ip[3], ".", ip[4]>>

----------------------------------------------------------------------------
(* class FD *)

FD_init ==
    [filename |-> Str(""), fd |-> None, family |-> AF_UNSPEC,
     fdtype |-> FDType_unknown, parent |-> None, cloexec |-> FALSE,
     net_read |-> 0, net_write |-> 0, disk_read |-> 0, disk_write |-> 0,
     unk_read |-> 0, unk_write |-> 0, read |-> 0, write |-> 0,
     iorequests |-> <<>>]

\* FD(): the attributes of FD_init, with iorequests the list that
\* init_counts makes for this object (ref: its position in the list store)
FD_new(ref) == [FD_init EXCEPT !.iorequests = ref]

\* a duplicate that takes the source's list for its own
new_from_fd_shared_history(fd, ref) ==
    [FD_new(fd.iorequests) EXCEPT !.filename = fd.filename, !.fd = fd.fd,
                                  !.family = fd.family, !.fdtype = fd.fdtype,
                                  !.parent = fd.parent,
                                  !.cloexec = fd.cloexec]

\* FD.new_from_fd: ref is the list made by cls() for the new object
new_from_fd(fd, ref) ==
    [FD_new(ref) EXCEPT !.filename = fd.filename, !.fd = fd.fd,
                        !.family = fd.family, !.fdtype = fd.fdtype,
                        !.parent = fd.parent, !.cloexec = fd.cloexec]

\* a transfer of n bytes on an FD: counted in the bucket of the FD's type for
\* the direction, and in the total of the direction
fd_transfer(fd, dir, n) ==
    LET bucket == IF fd.fdtype = FDType_net THEN "net"
                  ELSE IF fd.fdtype = FDType_disk THEN "disk"
                  ELSE "unk"
    IN  IF dir = "read"
        THEN [fd EXCEPT
                !.read = @ + n,
                !.net_read = IF bucket = "net" THEN @ + n ELSE @,
                !.disk_read = IF bucket = "disk" THEN @ + n ELSE @,
                !.unk_read = IF bucket = "unk" THEN @ + n ELSE @]
        ELSE [fd EXCEPT
                !.write = @ + n,
                !.net_write = IF bucket = "net" THEN @ + n ELSE @,
                !.disk_write = IF bucket = "disk" THEN @ + n ELSE @,
                !.unk_write = IF bucket = "unk" THEN @ + n ELSE @]

----------------------------------------------------------------------------
(* class SyscallEvent *)

\* the io_rq attribute is kept in a variable of its own
SyscallEvent_init(name, begin_ts) ==
    [name |-> name, begin_ts |-> begin_ts, end_ts |-> None, ret |-> None,
     duration |-> None]

SyscallEvent_new_from_entry(event) ==
    SyscallEvent_init(get_syscall_name(event), event.timestamp)

\* an exit that records the end and the return value, not the duration
process_exit_no_duration(self, event) ==
    [self EXCEPT !.end_ts = Some(event.timestamp), !.ret = Some(event.ret)]

process_exit(self, event) ==
    [self EXCEPT !.end_ts = Some(event.timestamp), !.ret = Some(event.ret),
                 !.duration = Some(event.timestamp - self.begin_ts)]

----------------------------------------------------------------------------
(* class IRQ and class SoftIRQ *)

IRQ_init(id, cpu_id, begin_ts) ==
    [id |-> id, cpu_id |-> cpu_id, begin_ts |-> begin_ts, end_ts |-> None]

SoftIRQ_init(id, cpu_id, raise_ts, begin_ts) ==
    [raise_ts |-> raise_ts] @@ IRQ_init(id, cpu_id, begin_ts)

\* a raise that hands its timestamp over as begin_ts
new_from_softirq_raise_as_begin(event) ==
    SoftIRQ_init(event.vec, event.cpu_id, None, Some(event.timestamp))

new_from_softirq_raise(event) ==
    SoftIRQ_init(event.vec, event.cpu_id, Some(event.timestamp), None)

\* begin_ts passed by position, where the constructor takes raise_ts
new_from_softirq_entry_positional(event) ==
    SoftIRQ_init(event.vec, event.cpu_id, Some(event.timestamp), None)

new_from_softirq_entry(event) ==
    SoftIRQ_init(event.vec, event.cpu_id, None, Some(event.timestamp))

RECURSIVE FirstUnserviced(_, _)
\* index of the oldest record of a vector's list that has no begin_ts, from i
\* on; 0 when every record is being serviced
FirstUnserviced(lst, i) ==
    IF i > Len(lst) THEN 0
    ELSE IF lst[i].begin_ts = None THEN i
    ELSE FirstUnserviced(lst, i + 1)

\* a raise adds a record to the vector's list: several instances of one vector
\* may be raised before any is serviced
process_softirq_raise(lst, event) ==
    Append(lst, new_from_softirq_raise(event))

\* an entry services the oldest raised record of the vector; without one, the
\* entry makes a record of its own
process_softirq_entry(lst, event) ==
    LET i == FirstUnserviced(lst, 1)
    IN  IF i # 0
        THEN [lst EXCEPT ![i].begin_ts = Some(event.timestamp)]
        ELSE Append(lst, new_from_softirq_entry(event))

----------------------------------------------------------------------------
(* class IORequest and its subclasses: constructors *)

IORequest_init(begin_ts, size, tid, operation) ==
    [begin_ts |-> begin_ts, end_ts |-> None, duration |-> None,
     size |-> size, operation |-> operation, tid |-> tid, errno |-> None]

\* the size parameter is accepted and None is handed to the base class
SyscallIORequest_init(begin_ts, size, tid, operation, syscall_name) ==
    [fd |-> None, syscall_name |-> syscall_name, returned_size |-> None,
     pages_allocated |-> 0, pages_freed |-> 0, pages_written |-> 0,
     woke_kswapd |-> FALSE]
    @@ IORequest_init(begin_ts, None, tid, operation)

OpenIORequest_init(begin_ts, tid, syscall_name, filename, fd_type) ==
    [cls |-> "OpenIORequest", fd |-> None, filename |-> filename,
     fd_type |-> fd_type, family |-> None, cloexec |-> FALSE]
    @@ SyscallIORequest_init(begin_ts, None, tid, OP_OPEN, syscall_name)

new_from_disk_open(event, tid) ==
    [OpenIORequest_init(event.timestamp, tid, get_syscall_name(event),
                        event.filename, FDType_disk)
     EXCEPT !.cloexec = (BitAnd(event.flags, O_CLOEXEC) = O_CLOEXEC)]

\* the address label built for every socket that has a family
new_from_accept_any_family(event, tid) ==
    LET req == OpenIORequest_init(event.timestamp, tid, get_syscall_name(event),
                                  Str("socket"), FDType_net)
    IN  IF "family" \in DOMAIN event
        THEN [req EXCEPT !.family = Some(event.family),
                         !.filename = get_v4_addr_str(event.v4addr)
                                      \o <<":", event.sport>>]
        ELSE req

new_from_accept(event, tid) ==
    LET req == OpenIORequest_init(event.timestamp, tid, get_syscall_name(event),
                                  Str("socket"), FDType_net)
    IN  IF "family" \in DOMAIN event
        THEN IF event.family = AF_INET
             THEN [req EXCEPT !.family = Some(event.family),
                              !.filename = get_v4_addr_str(event.v4addr)
                                           \o <<":", event.sport>>]
             ELSE [req EXCEPT !.family = Some(event.family)]
        ELSE req

new_from_socket(event, tid) ==
    LET req == OpenIORequest_init(event.timestamp, tid, "socket",
                                  Str("socket"), FDType_net)
    IN  IF "family" \in DOMAIN event
        THEN [req EXCEPT !.family = Some(event.family)]
        ELSE req

\* an untracked descriptor given the defaults of a fresh FD object
new_from_old_fd_fresh_fd(event, tid, old_fd) ==
    IF old_fd = None
    THEN Ok(OpenIORequest_init(event.timestamp, tid, get_syscall_name(event),
                               FD_init.filename, FD_init.fdtype))
    ELSE IF HasAttr(Val(old_fd), "filename") /\ HasAttr(Val(old_fd), "fd_type")
         THEN Ok(OpenIORequest_init(event.timestamp, tid,
                                    get_syscall_name(event),
                                    Val(old_fd).filename, Val(old_fd).fd_type))
         ELSE Raise("AttributeError")

\* old_fd is None or an FD object; an FD object has no attribute fd_type
new_from_old_fd(event, tid, old_fd) ==
    IF old_fd = None
    THEN Ok(OpenIORequest_init(event.timestamp, tid, get_syscall_name(event),
                               Str("unknown"), FDType_unknown))
    ELSE IF HasAttr(Val(old_fd), "filename") /\ HasAttr(Val(old_fd), "fd_type")
         THEN Ok(OpenIORequest_init(event.timestamp, tid,
                                    get_syscall_name(event),
                                    Val(old_fd).filename, Val(old_fd).fd_type))
         ELSE Raise("AttributeError")

CloseIORequest_init(begin_ts, tid, fd) ==
    [cls |-> "CloseIORequest", fd |-> Some(fd)]
    @@ SyscallIORequest_init(begin_ts, None, tid, OP_CLOSE, "close")

ReadWriteIORequest_init(begin_ts, size, tid, operation, syscall_name) ==
    [cls |-> "ReadWriteIORequest", fd_in |-> None, fd_out |-> None]
    @@ SyscallIORequest_init(begin_ts, size, tid, operation, syscall_name)

new_from_splice(event, tid) ==
    [ReadWriteIORequest_init(event.timestamp, Some(event.len), tid, OP_READ,
                             "splice")
     EXCEPT !.fd_in = Some(event.fd_in), !.fd_out = Some(event.fd_out)]

new_from_sendfile64(event, tid) ==
    [ReadWriteIORequest_init(event.timestamp, Some(event.count), tid, OP_READ,
                             "sendfile64")
     EXCEPT !.fd_in = Some(event.in_fd), !.fd_out = Some(event.out_fd)]

\* a write when the name is a write syscall's, a read otherwise
new_from_fd_event_write_set(event, tid, size_key) ==
    LET size == IF size_key # None THEN Some(event[Val(size_key)]) ELSE None
        syscall_name == get_syscall_name(event)
        operation == IF syscall_name \in WRITE_SYSCALLS THEN OP_WRITE
                     ELSE OP_READ
    IN  [ReadWriteIORequest_init(event.timestamp, size, tid, operation,
                                 syscall_name)
         EXCEPT !.fd = Some(event.fd)]

\* size_key is None or the name of the event field that holds the size
new_from_fd_event(event, tid, size_key) ==
    LET size == IF size_key # None THEN Some(event[Val(size_key)]) ELSE None
        syscall_name == get_syscall_name(event)
        operation == IF syscall_name \in READ_SYSCALLS THEN OP_READ
                     ELSE OP_WRITE
    IN  [ReadWriteIORequest_init(event.timestamp, size, tid, operation,
                                 syscall_name)
         EXCEPT !.fd = Some(event.fd)]

SyncIORequest_init(begin_ts, size, tid, syscall_name) ==
    [cls |-> "SyncIORequest"]
    @@ SyscallIORequest_init(begin_ts, size, tid, OP_SYNC, syscall_name)

new_from_sync(event, tid) ==
    SyncIORequest_init(event.timestamp, None, tid, "sync")

new_from_fsync(event, tid) ==
    [SyncIORequest_init(event.timestamp, None, tid, get_syscall_name(event))
     EXCEPT !.fd = Some(event.fd)]

new_from_sync_file_range(event, tid) ==
    [SyncIORequest_init(event.timestamp, Some(event.nbytes), tid,
                        "sync_file_range")
     EXCEPT !.fd = Some(event.fd)]

BlockIORequest_init(begin_ts, tid, operation, dev, sector, nr_sector) ==
    [cls |-> "BlockIORequest", dev |-> dev, sector |-> sector,
     nr_sector |-> nr_sector]
    @@ IORequest_init(begin_ts, Some(nr_sector * SECTOR_SIZE), tid, operation)

\* the parity rule taken the other way round
new_from_rq_issue_odd_reads(event) ==
    BlockIORequest_init(event.timestamp, event.tid,
                        IF event.rwbs % 2 = 1 THEN OP_READ ELSE OP_WRITE,
                        event.dev, event.sector, event.nr_sector)

new_from_rq_issue(event) ==
    BlockIORequest_init(event.timestamp, event.tid,
                        IF event.rwbs % 2 = 0 THEN OP_READ ELSE OP_WRITE,
                        event.dev, event.sector, event.nr_sector)

----------------------------------------------------------------------------
(* class IORequest and its subclasses: finalization *)

\* the duration taken from the end to the beginning
SyscallIORequest_update_from_exit_reversed(self, event) ==
    LET r == [self EXCEPT !.end_ts = Some(event.timestamp),
                          !.duration = Some(self.begin_ts - event.timestamp)]
    IN  IF event.ret < 0 THEN [r EXCEPT !.errno = Some(-event.ret)] ELSE r

\* the return value stored as errno without negating it
SyscallIORequest_update_from_exit_raw_errno(self, event) ==
    LET r == [self EXCEPT !.end_ts = Some(event.timestamp),
                          !.duration = Some(event.timestamp - self.begin_ts)]
    IN  IF event.ret < 0 THEN [r EXCEPT !.errno = Some(event.ret)] ELSE r

SyscallIORequest_update_from_exit(self, event) ==
    LET r == [self EXCEPT !.end_ts = Some(event.timestamp),
                          !.duration = Some(event.timestamp - self.begin_ts)]
    IN  IF event.ret < 0 THEN [r EXCEPT !.errno = Some(-event.ret)] ELSE r

\* a return of 0 not taken for a descriptor
OpenIORequest_update_from_exit_positive(self, event) ==
    LET r == SyscallIORequest_update_from_exit(self, event)
    IN  IF event.ret > 0 THEN [r EXCEPT !.fd = Some(event.ret)] ELSE r

OpenIORequest_update_from_exit(self, event) ==
    LET r == SyscallIORequest_update_from_exit(self, event)
    IN  IF event.ret >= 0 THEN [r EXCEPT !.fd = Some(event.ret)] ELSE r

\* the size left as it was at entry
ReadWriteIORequest_update_from_exit_no_backfill(self, event) ==
    LET r == SyscallIORequest_update_from_exit(self, event)
        ret == event.ret
    IN  IF ret >= 0 THEN [r EXCEPT !.returned_size = Some(ret)] ELSE r

\* the return value stored as returned_size whatever its sign
ReadWriteIORequest_update_from_exit_unguarded(self, event) ==
    LET r == SyscallIORequest_update_from_exit(self, event)
        ret == event.ret
    IN  IF ret >= 0 /\ r.size = None
        THEN [r EXCEPT !.returned_size = Some(ret), !.size = Some(ret)]
        ELSE [r EXCEPT !.returned_size = Some(ret)]

ReadWriteIORequest_update_from_exit(self, event) ==
    LET r == SyscallIORequest_update_from_exit(self, event)
        ret == event.ret
    IN  IF ret >= 0
        THEN IF r.size = None
             THEN [r EXCEPT !.returned_size = Some(ret), !.size = Some(ret)]
             ELSE [r EXCEPT !.returned_size = Some(ret)]
        ELSE r

\* a return of 0 not taken for a size
SyncIORequest_update_from_exit_positive(self, event) ==
    LET r == SyscallIORequest_update_from_exit(self, event)
        ret == event.ret
    IN  IF ret > 0
        THEN IF r.size = None
             THEN [r EXCEPT !.returned_size = Some(ret), !.size = Some(ret)]
             ELSE [r EXCEPT !.returned_size = Some(ret)]
        ELSE r

SyncIORequest_update_from_exit(self, event) ==
    LET r == SyscallIORequest_update_from_exit(self, event)
        ret == event.ret
    IN  IF ret >= 0
        THEN IF r.size = None
             THEN [r EXCEPT !.returned_size = Some(ret), !.size = Some(ret)]
             ELSE [r EXCEPT !.returned_size = Some(ret)]
        ELSE r

\* every request finalized as an open request is
update_from_exit_as_open(self, event) ==
    OpenIORequest_update_from_exit(self, event)

\* the method the object's class resolves update_from_exit to
update_from_exit(self, event) ==
    CASE self.cls = "OpenIORequest" -> OpenIORequest_update_from_exit(self, event)
      [] self.cls = "ReadWriteIORequest" ->
             ReadWriteIORequest_update_from_exit(self, event)
      [] self.cls = "SyncIORequest" -> SyncIORequest_update_from_exit(self, event)
      [] self.cls = "CloseIORequest" ->
             SyscallIORequest_update_from_exit(self, event)

update_from_rq_complete(self, event) ==
    [self EXCEPT !.end_ts = Some(event.timestamp),
                 !.duration = Some(event.timestamp - self.begin_ts)]

----------------------------------------------------------------------------
(* class BlockRemapRequest and the block handlers on Disk.pending_requests *)

BlockRemapRequest_init(dev, sector, old_dev, old_sector) ==
    [dev |-> dev, sector |-> sector, old_dev |-> old_dev,
     old_sector |-> old_sector]

\* an issue makes the request pending under its sector
process_rq_issue(pend, event) ==
    [pend EXCEPT ![event.sector] = Some(new_from_rq_issue(event))]

\* a completion that finalizes the request and leaves it in the map
process_rq_complete_keeps(pend, event) ==
    IF pend[event.sector] # None
    THEN [pend |-> [pend EXCEPT ![event.sector] =
                        Some(update_from_rq_complete(Val(@), event))],
          rq |-> Some(update_from_rq_complete(Val(pend[event.sector]),
                                              event))]
    ELSE [pend |-> pend, rq |-> None]

\* a completion finalizes the request pending under the event's sector and
\* takes it out of the map; rq is the finalized request handed on, or None
\* when nothing was pending there
process_rq_complete(pend, event) ==
    IF pend[event.sector] # None
    THEN [pend |-> [pend EXCEPT ![event.sector] = None],
          rq |-> Some(update_from_rq_complete(Val(pend[event.sector]),
                                              event))]
    ELSE [pend |-> pend, rq |-> None]

\* a remap moves the request pending under the old sector to its new
\* (dev, sector) identity
process_rq_remap(pend, remap) ==
    IF pend[remap.old_sector] # None
    THEN LET rq == [Val(pend[remap.old_sector])
                    EXCEPT !.dev = remap.dev, !.sector = remap.sector]
         IN  [[pend EXCEPT ![remap.old_sector] = None]
              EXCEPT ![remap.sector] = Some(rq)]
    ELSE pend

----------------------------------------------------------------------------
(* The events of the trace *)

Tids == {42}
Rets == {-2, 0, 3}
Flags == {0, 1, O_CLOEXEC, O_CLOEXEC + 1}
Filenames == {Str("/tmp/a")}
FdNums == {3}
Sizes == {4096}
Families == {AF_UNIX, AF_INET}
Addrs == {<<10, 0, 0, 1>>}
Ports == {80}
Prefixes == {"syscall_entry_"}
Devs == {8}
Sectors == {64}
NrSectors == {8}
Rwbs == {4, 5}
DiskSectors == {64, 128}
Cpus == {0}
Vecs == {1, 3}

\* the FD objects of the traced task's fd table
TrackedFDs ==
    {[FD_init EXCEPT !.filename = Str("/tmp/a"), !.fd = Some(3),
                     !.fdtype = FDType_disk],
     [FD_init EXCEPT !.filename = Str("socket"), !.fd = Some(4),
                     !.fdtype = FDType_net, !.family = AF_INET]}

\* the read/write syscalls handled by new_from_fd_event, each with the name of
\* the entry field that holds its size (None: the size is known on exit only)
FdEvents ==
    {<<"read", Some("count")>>, <<"write", Some("count")>>,
     <<"recvmsg", None>>, <<"sendmsg", None>>, <<"pwrite64", Some("count")>>}

Entry(name, payload) ==
    [timestamp |-> now, name |-> name] @@ payload

----------------------------------------------------------------------------
(* Initial state: nothing traced yet *)

Init ==
    /\ now = 0
    /\ io_rq = None
    /\ log = None
    /\ blk = None
    /\ blklog = None
    /\ raised = None
    /\ softirqs = [c \in Cpus |-> [v \in Vecs |-> <<>>]]
    /\ irqlog = [c \in Cpus |-> [v \in Vecs |-> <<>>]]
    /\ current_syscall = None
    /\ fdobjs = <<>>
    /\ lists = <<>>
    /\ fdlog = <<>>
    /\ pending = [s \in DiskSectors |-> None]
    /\ disklog = None

\* an uncaught exception ends the replay
Running == raised = None

\* the reader hands over the next event, never an earlier one
Tick ==
    /\ Running
    /\ now < MaxTs
    /\ now' = now + 1
    /\ UNCHANGED <<fdvars, diskvars, current_syscall, io_rq, log, blk, blklog, raised, softirqs, irqlog>>

----------------------------------------------------------------------------
(* Syscall entry events: a request is built and becomes the task's io_rq *)

Built(ctor, event, tid, args, req) ==
    /\ current_syscall' = Some(SyscallEvent_new_from_entry(event))
    /\ io_rq' = Some(req)
    /\ log' = Some([ctor |-> ctor, event |-> event, tid |-> tid,
                    args |-> args, nexits |-> 0, exit |-> None])
    /\ UNCHANGED <<fdvars, diskvars, now, blk, blklog, raised, softirqs, irqlog>>

DiskOpen ==
    /\ Running
    /\ \E tid \in Tids, p \in Prefixes, n \in {"open"}, f \in Filenames,
          fl \in Flags :
          LET event == Entry(<<p, n>>, [filename |-> f, flags |-> fl])
          IN  Built("new_from_disk_open", event, tid, <<>>,
                    new_from_disk_open(event, tid))

Accept ==
    /\ Running
    /\ \E tid \in Tids, p \in Prefixes, n \in {"accept"} :
          \/ LET event == Entry(<<p, n>>, [upeer_sockaddr |-> 0])
             IN  Built("new_from_accept", event, tid, <<>>,
                       new_from_accept(event, tid))
          \/ \E fam \in Families, a \in Addrs, sp \in Ports :
                LET event == Entry(<<p, n>>,
                                   [family |-> fam, v4addr |-> a, sport |-> sp])
                IN  Built("new_from_accept", event, tid, <<>>,
                          new_from_accept(event, tid))

Socket ==
    /\ Running
    /\ \E tid \in Tids, p \in Prefixes :
          \/ LET event == Entry(<<p, "socket">>, [type |-> 1])
             IN  Built("new_from_socket", event, tid, <<>>,
                       new_from_socket(event, tid))
          \/ \E fam \in Families :
                LET event == Entry(<<p, "socket">>, [family |-> fam])
                IN  Built("new_from_socket", event, tid, <<>>,
                          new_from_socket(event, tid))

\* fcntl/dup/dup2/dup3: the caller looks the duplicated descriptor up in the
\* task's fd table and passes the FD object, or None when it is not tracked
DupOpen ==
    /\ Running
    /\ \E tid \in Tids, p \in Prefixes, n \in {"dup"},
          old_fd \in {None} \cup {Some(f) : f \in TrackedFDs} :
          LET event == Entry(<<p, n>>, [fildes |-> 3])
              res == new_from_old_fd(event, tid, old_fd)
          IN  IF res.ok
              THEN Built("new_from_old_fd", event, tid, [old_fd |-> old_fd],
                         res.val)
              ELSE /\ raised' = Some([op |-> "new_from_old_fd",
                                      exc |-> res.exc, old_fd |-> old_fd])
                   /\ UNCHANGED <<fdvars, diskvars, current_syscall, now, io_rq, log, blk, blklog, softirqs,
                                  irqlog>>

Close ==
    /\ Running
    /\ \E tid \in Tids, p \in Prefixes, fd \in FdNums :
          LET event == Entry(<<p, "close">>, [fd |-> fd])
          IN  Built("CloseIORequest", event, tid, <<>>,
                    CloseIORequest_init(event.timestamp, tid, event.fd))

Splice ==
    /\ Running
    /\ \E tid \in Tids, p \in Prefixes, sz \in Sizes, fd \in FdNums :
          LET event == Entry(<<p, "splice">>,
                             [len |-> sz, fd_in |-> fd, fd_out |-> fd + 1])
          IN  Built("new_from_splice", event, tid, <<>>,
                    new_from_splice(event, tid))

Sendfile64 ==
    /\ Running
    /\ \E tid \in Tids, p \in Prefixes, sz \in Sizes, fd \in FdNums :
          LET event == Entry(<<p, "sendfile64">>,
                             [count |-> sz, in_fd |-> fd, out_fd |-> fd + 1])
          IN  Built("new_from_sendfile64", event, tid, <<>>,
                    new_from_sendfile64(event, tid))

FdEvent ==
    /\ Running
    /\ \E tid \in Tids, p \in Prefixes, ne \in FdEvents, sz \in Sizes,
          fd \in FdNums :
          LET size_key == ne[2]
              event == IF size_key = None
                       THEN Entry(<<p, ne[1]>>, [fd |-> fd])
                       ELSE Entry(<<p, ne[1]>>, [fd |-> fd, count |-> sz])
          IN  Built("new_from_fd_event", event, tid, [size_key |-> size_key],
                    new_from_fd_event(event, tid, size_key))

Sync ==
    /\ Running
    /\ \E tid \in Tids, p \in Prefixes :
          LET event == Entry(<<p, "sync">>, <<>>)
          IN  Built("new_from_sync", event, tid, <<>>,
                    new_from_sync(event, tid))

Fsync ==
    /\ Running
    /\ \E tid \in Tids, p \in Prefixes, n \in {"fdatasync"},
          fd \in FdNums :
          LET event == Entry(<<p, n>>, [fd |-> fd])
          IN  Built("new_from_fsync", event, tid, <<>>,
                    new_from_fsync(event, tid))

SyncFileRange ==
    /\ Running
    /\ \E tid \in Tids, p \in Prefixes, sz \in Sizes, fd \in FdNums :
          LET event == Entry(<<p, "sync_file_range">>,
                             [fd |-> fd, nbytes |-> sz])
          IN  Built("new_from_sync_file_range", event, tid, <<>>,
                    new_from_sync_file_range(event, tid))

----------------------------------------------------------------------------
(* Syscall exit events: routed to the task's io_rq *)

Exit ==
    /\ Running
    /\ io_rq # None
    /\ Val(log).nexits < MaxExits
    /\ \E ret \in Rets :
          LET event == [timestamp |-> now, ret |-> ret]
          IN  /\ io_rq' = Some(update_from_exit(Val(io_rq), event))
              /\ current_syscall' = Some(process_exit(Val(current_syscall),
                                                      event))
              /\ log' = Some([Val(log) EXCEPT !.nexits = @ + 1,
                                              !.exit = Some(event)])
    /\ UNCHANGED <<fdvars, diskvars, now, blk, blklog, raised, softirqs, irqlog>>

----------------------------------------------------------------------------
(* Block layer events *)

RqIssue ==
    /\ Running
    /\ \E tid \in Tids, d \in Devs, s \in Sectors, n \in NrSectors,
          rw \in Rwbs :
          LET event == Entry(<<"", "block_rq_issue">>,
                             [dev |-> d, sector |-> s, nr_sector |-> n,
                              tid |-> tid, rwbs |-> rw])
          IN  /\ blk' = Some(new_from_rq_issue(event))
              /\ blklog' = Some([event |-> event, completed |-> FALSE])
    /\ UNCHANGED <<fdvars, diskvars, current_syscall, now, io_rq, log, raised, softirqs, irqlog>>

RqComplete ==
    /\ Running
    /\ blk # None
    /\ LET event == [timestamp |-> now, dev |-> Val(blk).dev,
                     sector |-> Val(blk).sector]
       IN  /\ blk' = Some(update_from_rq_complete(Val(blk), event))
           /\ blklog' = Some([Val(blklog) EXCEPT !.completed = TRUE])
    /\ UNCHANGED <<fdvars, diskvars, current_syscall, now, io_rq, log, raised, softirqs, irqlog>>

----------------------------------------------------------------------------
(* Softirq events: the record list of the event's vector on the event's CPU *)

SoftirqRaise ==
    /\ Running
    /\ \E c \in Cpus, v \in Vecs :
          LET event == [timestamp |-> now, name |-> <<"", "softirq_raise">>,
                        cpu_id |-> c, vec |-> v]
          IN  /\ Len(irqlog[c][v]) < MaxIrqEvents
              /\ softirqs' = [softirqs EXCEPT
                                ![c][v] = process_softirq_raise(@, event)]
              /\ irqlog' = [irqlog EXCEPT ![c][v] = Append(@, event)]
    /\ UNCHANGED <<fdvars, diskvars, current_syscall, now, io_rq, log, blk, blklog, raised>>

SoftirqEntry ==
    /\ Running
    /\ \E c \in Cpus, v \in Vecs :
          LET event == [timestamp |-> now, name |-> <<"", "softirq_entry">>,
                        cpu_id |-> c, vec |-> v]
          IN  /\ Len(irqlog[c][v]) < MaxIrqEvents
              /\ softirqs' = [softirqs EXCEPT
                                ![c][v] = process_softirq_entry(@, event)]
              /\ irqlog' = [irqlog EXCEPT ![c][v] = Append(@, event)]
    /\ UNCHANGED <<fdvars, diskvars, current_syscall, now, io_rq, log, blk, blklog, raised>>

----------------------------------------------------------------------------
(* File descriptors: a source FD, the transfers and requests accounted on  *)
(* the FD objects, and the duplication of the source                       *)

IdentityFields == {"filename", "fd", "family", "fdtype", "parent", "cloexec"}
Counters ==
    {"net_read", "net_write", "disk_read", "disk_write", "unk_read",
     "unk_write", "read", "write"}

Identity(fd) == [f \in IdentityFields |-> fd[f]]

\* what the task's fd table holds for a descriptor after its open
SourceIdentities ==
    {[filename |-> Str("/tmp/a"), fd |-> Some(3), family |-> AF_UNSPEC,
      fdtype |-> FDType_disk, parent |-> None, cloexec |-> TRUE],
     [filename |-> Str("socket"), fd |-> Some(4), family |-> AF_INET,
      fdtype |-> FDType_net, parent |-> Some(41), cloexec |-> FALSE],
     [filename |-> Str("unknown"), fd |-> Some(5), family |-> AF_UNSPEC,
      fdtype |-> FDType_unknown, parent |-> None, cloexec |-> FALSE]}

NoFdLog(id) == [identity |-> id, read |-> 0, write |-> 0, nrecorded |-> 0]

\* FD() followed by the assignment of the identity the open resolved
FdCreate ==
    /\ fdobjs = <<>>
    /\ \E id \in SourceIdentities :
          /\ lists' = Append(lists, <<>>)
          /\ fdobjs' = <<id @@ FD_new(Len(lists) + 1)>>
          /\ fdlog' = <<NoFdLog(id)>>
    /\ UNCHANGED <<now, io_rq, log, blk, blklog, raised, softirqs, irqlog,
                   current_syscall, diskvars>>

FdTransfer ==
    /\ \E i \in DOMAIN fdobjs, dir \in {"read", "write"} :
          /\ fdlog[i].read + fdlog[i].write < MaxXfer
          /\ fdobjs' = [fdobjs EXCEPT ![i] = fd_transfer(@, dir, 1)]
          /\ fdlog' = [fdlog EXCEPT ![i][dir] = @ + 1]
    /\ UNCHANGED <<now, io_rq, log, blk, blklog, raised, softirqs, irqlog,
                   current_syscall, lists, diskvars>>

\* fd.iorequests.append(request): the list the attribute refers to grows
FdRecord ==
    /\ \E i \in DOMAIN fdobjs :
          /\ fdlog[i].nrecorded < MaxHist
          /\ lists' = [lists EXCEPT ![fdobjs[i].iorequests] =
                                       Append(@, [recorded_on |-> i])]
          /\ fdlog' = [fdlog EXCEPT ![i].nrecorded = @ + 1]
    /\ UNCHANGED <<now, io_rq, log, blk, blklog, raised, softirqs, irqlog,
                   current_syscall, fdobjs, diskvars>>

\* FD.new_from_fd(source): cls() makes the object and its list, then the
\* identity is copied
FdDup ==
    /\ fdobjs # <<>>
    /\ Len(fdobjs) < 3
    /\ lists' = Append(lists, <<>>)
    /\ fdobjs' = Append(fdobjs, new_from_fd(fdobjs[1], Len(lists) + 1))
    /\ fdlog' = Append(fdlog, NoFdLog(Identity(fdobjs[1])))
    /\ UNCHANGED <<now, io_rq, log, blk, blklog, raised, softirqs, irqlog,
                   current_syscall, diskvars>>

----------------------------------------------------------------------------
(* Block events on the disk's map of pending requests *)

DiskIssue ==
    /\ Running
    /\ \E tid \in Tids, d \in Devs, s \in DiskSectors, n \in NrSectors,
          rw \in Rwbs :
          LET event == Entry(<<"", "block_rq_issue">>,
                             [dev |-> d, sector |-> s, nr_sector |-> n,
                              tid |-> tid, rwbs |-> rw])
          IN  /\ pending' = process_rq_issue(pending, event)
              /\ disklog' = Some([op |-> "issue", sector |-> s,
                                  was_pending |-> pending[s] # None,
                                  rq |-> None])
    /\ UNCHANGED <<now, io_rq, log, blk, blklog, raised, softirqs, irqlog,
                   current_syscall, fdvars>>

DiskComplete ==
    /\ Running
    /\ \E d \in Devs, s \in DiskSectors :
          LET event == Entry(<<"", "block_rq_complete">>,
                             [dev |-> d, sector |-> s])
              res == process_rq_complete(pending, event)
          IN  /\ pending' = res.pend
              /\ disklog' = Some([op |-> "complete", sector |-> s,
                                  was_pending |-> pending[s] # None,
                                  rq |-> res.rq])
    /\ UNCHANGED <<now, io_rq, log, blk, blklog, raised, softirqs, irqlog,
                   current_syscall, fdvars>>

DiskRemap ==
    /\ Running
    /\ \E d \in Devs, old \in DiskSectors, new \in DiskSectors :
          LET remap == BlockRemapRequest_init(d + 1, new, d, old)
          IN  /\ pending' = process_rq_remap(pending, remap)
              /\ disklog' = Some([op |-> "remap", sector |-> old,
                                  was_pending |-> pending[old] # None,
                                  rq |-> None, remap |-> remap])
    /\ UNCHANGED <<now, io_rq, log, blk, blklog, raised, softirqs, irqlog,
                   current_syscall, fdvars>>

----------------------------------------------------------------------------
(* Specifications: the replay of syscall and block events, the replay of   *)
(* softirq events, the accounting on file descriptors, the disk's map of   *)
(* pending requests                                                        *)

Next ==
    \/ Tick
    \/ DiskOpen
    \/ Accept
    \/ Socket
    \/ DupOpen
    \/ Close
    \/ Splice
    \/ Sendfile64
    \/ FdEvent
    \/ Sync
    \/ Fsync
    \/ SyncFileRange
    \/ Exit
    \/ RqIssue
    \/ RqComplete

Spec == Init /\ [][Next]_vars

NextIrq ==
    \/ Tick
    \/ SoftirqRaise
    \/ SoftirqEntry

SpecIrq == Init /\ [][NextIrq]_vars

NextFd ==
    \/ FdCreate
    \/ FdTransfer
    \/ FdRecord
    \/ FdDup

SpecFd == Init /\ [][NextFd]_vars

NextDisk ==
    \/ Tick
    \/ DiskIssue
    \/ DiskComplete
    \/ DiskRemap

SpecDisk == Init /\ [][NextDisk]_vars

----------------------------------------------------------------------------
(* Properties *)

\* the task's request, how it was built, and its last exit event
Rq == Val(io_rq)
Lg == Val(log)
Built_by(ctor) == io_rq # None /\ Lg.ctor = ctor
Exited == io_rq # None /\ Lg.nexits >= 1
ExitedOnce == io_rq # None /\ Lg.nexits = 1
LastRet == Val(Lg.exit).ret

\* C1: a finalized I/O request, syscall-level or block-level, has
\* end_ts >= begin_ts and duration = end_ts - begin_ts, the events being
\* replayed in non-decreasing timestamp order.
C1_FinalizedSpan ==
    /\ Exited =>
         /\ Rq.end_ts # None
         /\ Val(Rq.end_ts) >= Rq.begin_ts
         /\ Rq.duration = Some(Val(Rq.end_ts) - Rq.begin_ts)
    /\ (blk # None /\ Val(blklog).completed) =>
         /\ Val(blk).end_ts # None
         /\ Val(Val(blk).end_ts) >= Val(blk).begin_ts
         /\ Val(blk).duration = Some(Val(Val(blk).end_ts) - Val(blk).begin_ts)

C1_Witness ==
    /\ Exited
    /\ Rq.duration = Some(2)
    /\ blk # None
    /\ Val(blklog).completed
    /\ Val(blk).duration = Some(1)

\* C2: right after construction from an entry event that carries a size
\* field, the request's size is that field's value (new_from_fd_event with a
\* size_key, new_from_sync_file_range with nbytes).
C2_EntrySizeKept ==
    (io_rq # None /\ Lg.nexits = 0) =>
        /\ (Lg.ctor = "new_from_fd_event" /\ Lg.args.size_key # None) =>
               Rq.size = Some(Lg.event[Val(Lg.args.size_key)])
        /\ Lg.ctor = "new_from_sync_file_range" =>
               Rq.size = Some(Lg.event.nbytes)

\* the constructor was handed no size: new_from_fd_event without a size_key,
\* new_from_sync, new_from_fsync
NoEntrySize ==
    \/ Built_by("new_from_fd_event") /\ Lg.args.size_key = None
    \/ Built_by("new_from_sync")
    \/ Built_by("new_from_fsync")

\* C3: a ReadWriteIORequest or SyncIORequest created with no entry-time size
\* and finalized with ret >= 0 has size = returned_size = ret after the exit.
C3_SizeBackfilled ==
    (NoEntrySize /\ ExitedOnce /\ LastRet >= 0) =>
        /\ Rq.cls \in {"ReadWriteIORequest", "SyncIORequest"}
        /\ Rq.size = Some(LastRet)
        /\ Rq.returned_size = Some(LastRet)

C3_Witness ==
    /\ Built_by("new_from_fd_event")
    /\ Rq.syscall_name = "recvmsg"
    /\ NoEntrySize
    /\ ExitedOnce
    /\ LastRet = 3
    /\ Rq.size = Some(3)

\* C4, as stated: finalizing a CloseIORequest, ReadWriteIORequest or
\* SyncIORequest with ret >= 0 stores ret as returned_size.
C4_NonOpenReturnedSize ==
    (Exited /\ Rq.cls # "OpenIORequest" /\ LastRet >= 0) =>
        Rq.returned_size = Some(LastRet)

\* C4, amended: finalizing a ReadWriteIORequest or SyncIORequest with
\* ret >= 0 stores ret as returned_size; the returned_size of a
\* CloseIORequest stays None.
C4_ReturnedSize ==
    /\ (Exited /\ Rq.cls \in {"ReadWriteIORequest", "SyncIORequest"}
               /\ LastRet >= 0) =>
           Rq.returned_size = Some(LastRet)
    /\ (io_rq # None /\ Rq.cls = "CloseIORequest") => Rq.returned_size = None

C4_Witness ==
    /\ Exited
    /\ Rq.cls = "SyncIORequest"
    /\ LastRet = 0
    /\ Rq.returned_size = Some(0)

\* C5: finalizing a syscall I/O request with ret < 0 records errno = -ret, a
\* strictly positive number; finalizing it with ret >= 0 leaves errno None.
C5_ErrnoFromRet ==
    /\ (Exited /\ LastRet < 0) =>
           /\ Rq.errno = Some(-LastRet)
           /\ Val(Rq.errno) > 0
    /\ (ExitedOnce /\ LastRet >= 0) => Rq.errno = None

C5_Witness ==
    /\ Exited
    /\ Rq.cls = "CloseIORequest"
    /\ LastRet = -2
    /\ Rq.errno = Some(2)

\* C6: new_from_old_fd with a tracked FD object builds a request whose
\* fd_type is the FD's type and whose filename is the FD's filename.
C6_DupInherits ==
    /\ (raised # None /\ Val(raised).op = "new_from_old_fd") =>
           Val(raised).old_fd = None
    /\ (Built_by("new_from_old_fd") /\ Lg.args.old_fd # None) =>
           /\ Rq.fd_type = Val(Lg.args.old_fd).fdtype
           /\ Rq.filename = Val(Lg.args.old_fd).filename

\* C7: new_from_old_fd with an untracked descriptor (old_fd is None) builds
\* a request with filename "unknown" and fd_type unknown, and does not fail.
C7_DupUntracked ==
    /\ (Built_by("new_from_old_fd") /\ Lg.args.old_fd = None) =>
           /\ Rq.filename = Str("unknown")
           /\ Rq.fd_type = FDType_unknown
    /\ (raised # None /\ Val(raised).op = "new_from_old_fd") =>
           Val(raised).old_fd # None

C7_Witness ==
    /\ Built_by("new_from_old_fd")
    /\ Lg.args.old_fd = None
    /\ Rq.syscall_name = "dup"
    /\ Rq.cls = "OpenIORequest"

\* C8: no operation ends in a raised error when its event carries the
\* fields required for its event class.
C8_NothingRaised == raised = None

\* C9: a request built by new_from_disk_open has fd None until its exit; the
\* exit sets fd to ret when ret >= 0 and leaves it None when ret < 0; cloexec
\* is true exactly when the entry flags have the O_CLOEXEC bit; the duration
\* is the exit timestamp less the entry timestamp.
C9_DiskOpenLifecycle ==
    Built_by("new_from_disk_open") =>
        /\ Rq.cloexec = ((Lg.event.flags \div O_CLOEXEC) % 2 = 1)
        /\ Lg.nexits = 0 => (Rq.fd = None /\ Rq.duration = None)
        /\ (Lg.nexits = 1 /\ LastRet >= 0) => Rq.fd = Some(LastRet)
        /\ (Lg.nexits = 1 /\ LastRet < 0) => Rq.fd = None
        /\ Lg.nexits = 1 =>
               Rq.duration = Some(Val(Lg.exit).timestamp - Lg.event.timestamp)

C9_Witness ==
    /\ Built_by("new_from_disk_open")
    /\ Lg.event.flags = O_CLOEXEC + 1
    /\ Lg.event.timestamp = 0
    /\ ExitedOnce
    /\ Val(Lg.exit).timestamp = 2
    /\ LastRet = 3
    /\ Rq.fd = Some(3)
    /\ Rq.cloexec
    /\ Rq.duration = Some(2)

IsRaise(e) == e.name[2] = "softirq_raise"
IsEntry(e) == e.name[2] = "softirq_entry"

\* C10: a softirq raise on a vector of a CPU followed by a softirq entry on
\* the same vector of the same CPU leaves one pending record for the vector,
\* with the raise's timestamp as raise_ts and the entry's as begin_ts.
C10_RaiseThenEntry ==
    \A c \in Cpus, v \in Vecs :
        LET ev == irqlog[c][v]
            lst == softirqs[c][v]
        IN  (Len(ev) >= 2 /\ IsRaise(ev[1]) /\ IsEntry(ev[2])) =>
                /\ Len(lst) >= 1
                /\ lst[1] = [id |-> v, cpu_id |-> c, end_ts |-> None,
                             raise_ts |-> Some(ev[1].timestamp),
                             begin_ts |-> Some(ev[2].timestamp)]
                /\ Len(ev) = 2 => Len(lst) = 1

C10_Witness ==
    /\ Len(irqlog[0][3]) = 2
    /\ IsRaise(irqlog[0][3][1])
    /\ IsEntry(irqlog[0][3][2])
    /\ irqlog[0][3][1].timestamp = 0
    /\ irqlog[0][3][2].timestamp = 2
    /\ Len(softirqs[0][3]) = 1
    /\ softirqs[0][1] # <<>>

\* C11: FD.new_from_fd copies the identity fields of the source (filename,
\* fd, family, type, parent, cloexec) and nothing else: each duplicate has
\* the source's identity, counters that count only its own transfers (all
\* eight are 0 until the first) and a history list of its own that holds
\* only the requests recorded on it; the source keeps its identity, its
\* counters and its history.
C11_DuplicateIdentityOnly ==
    \A j \in DOMAIN fdobjs :
        LET fd == fdobjs[j]
            lg == fdlog[j]
        IN  /\ Identity(fd) = fdlog[1].identity
            /\ fd.read = lg.read
            /\ fd.write = lg.write
            /\ fd.net_read + fd.disk_read + fd.unk_read = lg.read
            /\ fd.net_write + fd.disk_write + fd.unk_write = lg.write
            /\ (lg.read = 0 /\ lg.write = 0) =>
                   \A c \in Counters : fd[c] = 0
            /\ Len(lists[fd.iorequests]) = lg.nrecorded
            /\ \A k \in DOMAIN lists[fd.iorequests] :
                   lists[fd.iorequests][k].recorded_on = j
            /\ \A i \in DOMAIN fdobjs :
                   i # j => fdobjs[i].iorequests # fd.iorequests

C11_Witness ==
    /\ Len(fdobjs) = 3
    /\ fdobjs[1].fdtype = FDType_net
    /\ fdobjs[1].net_read = 1
    /\ fdobjs[1].write = 1
    /\ lists[fdobjs[1].iorequests] # <<>>
    /\ \A c \in Counters : fdobjs[2][c] = 0
    /\ lists[fdobjs[2].iorequests] = <<>>
    /\ fdobjs[3].read = 2
    /\ lists[fdobjs[3].iorequests] # <<>>
    /\ Identity(fdobjs[2]) = Identity(fdobjs[3])

\* C12: a block request built by new_from_rq_issue is a read when the
\* event's rwbs code is even (4) and a write when it is odd (5), and its
\* size in bytes is nr_sector times 512.
C12_BlockParityAndSize ==
    blk # None =>
        LET ev == Val(blklog).event
        IN  /\ ev.rwbs \in {0, 2, 4, 6} => Val(blk).operation = OP_READ
            /\ ev.rwbs \in {1, 3, 5, 7} => Val(blk).operation = OP_WRITE
            /\ Val(blk).operation \in {OP_READ, OP_WRITE}
            /\ Val(blk).size = Some(ev.nr_sector * 512)
            /\ Val(blk).nr_sector = ev.nr_sector

C12_Witness ==
    /\ blk # None
    /\ Val(blklog).event.rwbs = 5
    /\ Val(blklog).event.nr_sector = 8
    /\ Val(blk).operation = OP_WRITE
    /\ Val(blk).size = Some(4096)

\* C13: new_from_accept yields fd_type net; with a family field equal to
\* AF_INET the filename is the address string of v4addr, ':' and sport; with
\* no family field, or another family, the filename stays 'socket'.
C13_AcceptLabel ==
    Built_by("new_from_accept") =>
        /\ Rq.fd_type = FDType_net
        /\ ("family" \in DOMAIN Lg.event /\ Lg.event.family = AF_INET) =>
               Rq.filename =
                   get_v4_addr_str(Lg.event.v4addr) \o <<":", Lg.event.sport>>
        /\ ("family" \notin DOMAIN Lg.event) => Rq.filename = Str("socket")
        /\ ("family" \in DOMAIN Lg.event /\ Lg.event.family # AF_INET) =>
               Rq.filename = Str("socket")

C13_Witness ==
    /\ Built_by("new_from_accept")
    /\ "family" \in DOMAIN Lg.event
    /\ Lg.event.family = AF_INET
    /\ Rq.filename = <<10, ".", 0, ".", 0, ".", 1, ":", 80>>
    /\ Rq.tid = 42

\* C14: a block request leaves the disk's pending map when it completes or
\* is remapped: after the completion of a request that was pending under
\* its sector, the sector maps to no request and the request is finalized;
\* after a remap to another sector, the old sector maps to no request; no
\* finalized request is pending.
C14_CompletedNotPending ==
    /\ \A s \in DiskSectors :
           pending[s] # None => Val(pending[s]).end_ts = None
    /\ (disklog # None /\ Val(disklog).op = "complete"
                       /\ Val(disklog).was_pending) =>
           /\ pending[Val(disklog).sector] = None
           /\ Val(disklog).rq # None
           /\ Val(Val(disklog).rq).end_ts # None
           /\ Val(Val(disklog).rq).sector = Val(disklog).sector
    /\ (disklog # None /\ Val(disklog).op = "remap"
                       /\ Val(disklog).was_pending
                       /\ Val(disklog).remap.sector # Val(disklog).sector) =>
           /\ pending[Val(disklog).sector] = None
           /\ pending[Val(disklog).remap.sector] # None

C14_Witness ==
    /\ disklog # None
    /\ Val(disklog).op = "complete"
    /\ Val(disklog).was_pending
    /\ Val(disklog).sector = 64
    /\ pending[64] = None
    /\ pending[128] # None
    /\ Val(Val(disklog).rq).duration = Some(2)

\* C15: new_from_fd_event makes a read exactly when the syscall's name is
\* one of read, recvmsg, recvfrom, splice, readv, sendfile64, and a write for
\* every other name, also one that is in no I/O syscall set; new_from_splice
\* and new_from_sendfile64 make reads.
C15_ReadWriteByName ==
    /\ Built_by("new_from_fd_event") =>
           /\ Rq.syscall_name = Lg.event.name[2]
           /\ Rq.operation =
                  IF Rq.syscall_name \in {"read", "recvmsg", "recvfrom",
                                          "splice", "readv", "sendfile64"}
                  THEN OP_READ ELSE OP_WRITE
    /\ Built_by("new_from_splice") => Rq.operation = OP_READ
    /\ Built_by("new_from_sendfile64") => Rq.operation = OP_READ

C15_Witness ==
    /\ Built_by("new_from_fd_event")
    /\ Rq.syscall_name = "pwrite64"
    /\ Rq.syscall_name \notin READ_SYSCALLS \cup WRITE_SYSCALLS
    /\ Rq.operation = OP_WRITE

\* C16: a SoftIRQ made by new_from_softirq_raise has raise_ts equal to the
\* event's timestamp and no begin_ts; one made by new_from_softirq_entry has
\* begin_ts equal to the event's timestamp and no raise_ts; both have the
\* event's vec as id, the event's CPU as cpu_id and no end_ts.
C16_SoftirqCreationPaths ==
    \A c \in Cpus, v \in Vecs :
        LET ev == irqlog[c][v]
            lst == softirqs[c][v]
        IN  /\ (ev # <<>> /\ IsRaise(ev[Len(ev)])) =>
                   /\ lst # <<>>
                   /\ lst[Len(lst)] =
                          [id |-> v, cpu_id |-> c, end_ts |-> None,
                           raise_ts |-> Some(ev[Len(ev)].timestamp),
                           begin_ts |-> None]
            /\ (ev # <<>> /\ IsEntry(ev[1])) =>
                   /\ lst # <<>>
                   /\ lst[1] = [id |-> v, cpu_id |-> c, end_ts |-> None,
                                raise_ts |-> None,
                                begin_ts |-> Some(ev[1].timestamp)]

C16_Witness ==
    /\ Len(irqlog[0][1]) = 2
    /\ IsEntry(irqlog[0][1][1])
    /\ IsRaise(irqlog[0][1][2])
    /\ irqlog[0][1][2].timestamp = 1
    /\ Len(softirqs[0][1]) = 2
    /\ softirqs[0][1][1].raise_ts = None
    /\ softirqs[0][1][2].begin_ts = None

\* C17: an entry with no matching exit stays open: for the task's I/O
\* request, its SyscallEvent and the block request, end_ts is None exactly
\* when duration is None, and exactly when no exit (complete) event has been
\* routed to that object; events routed to another object do not finalize it.
C17_OpenUntilOwnExit ==
    /\ io_rq # None =>
           /\ (Rq.end_ts = None) <=> (Rq.duration = None)
           /\ (Rq.end_ts = None) <=> (Lg.nexits = 0)
    /\ current_syscall # None =>
           /\ io_rq # None
           /\ (Val(current_syscall).end_ts = None)
                  <=> (Val(current_syscall).duration = None)
           /\ (Val(current_syscall).end_ts = None) <=> (Lg.nexits = 0)
    /\ blk # None =>
           /\ (Val(blk).end_ts = None) <=> (Val(blk).duration = None)
           /\ (Val(blk).end_ts = None) <=> ~Val(blklog).completed

C17_Witness ==
    /\ now = 2
    /\ io_rq # None
    /\ Rq.begin_ts = 0
    /\ Lg.nexits = 0
    /\ Rq.end_ts = None
    /\ Val(current_syscall).end_ts = None
    /\ blk # None
    /\ Val(blk).begin_ts = 1
    /\ Val(blklog).completed
    /\ Val(blk).end_ts = Some(2)

\* the attributes update_from_exit may set on a request of a class
Changeable(cls) ==
    {"end_ts", "duration", "errno", "returned_size", "size"}
    \cup (IF cls = "OpenIORequest" THEN {"fd"} ELSE {})

\* C18: an open request has its fd_type from construction on (disk from
\* new_from_disk_open, net from new_from_accept and new_from_socket), and an
\* exit changes nothing of a syscall request but end_ts, duration, errno,
\* returned_size, size and, for an open request, fd.
C18_ExitKeepsIdentity ==
    /\ [](/\ Built_by("new_from_disk_open") => Rq.fd_type = FDType_disk
          /\ Built_by("new_from_accept") => Rq.fd_type = FDType_net
          /\ Built_by("new_from_socket") => Rq.fd_type = FDType_net)
    /\ [][(io_rq # None /\ log' # None
                        /\ Val(log').nexits = Val(log).nexits + 1) =>
              /\ DOMAIN Val(io_rq') = DOMAIN Val(io_rq)
              /\ \A f \in DOMAIN Val(io_rq) \ Changeable(Val(io_rq).cls) :
                     Val(io_rq')[f] = Val(io_rq)[f]]_vars

C18_Witness ==
    /\ Built_by("new_from_accept")
    /\ Exited
    /\ LastRet = 3
    /\ Rq.fd = Some(3)
    /\ Rq.fd_type = FDType_net
    /\ Rq.family = Some(AF_INET)
    /\ Rq.begin_ts = 0
    /\ Rq.end_ts = Some(1)

\* C19: a ReadWriteIORequest or SyncIORequest finalized by one exit has
\* exactly one of errno and returned_size set: errno when ret < 0,
\* returned_size when ret >= 0 (0 included); a failed request that had no
\* size at entry still has none.
C19_ErrnoOrReturnedSize ==
    (ExitedOnce /\ Rq.cls \in {"ReadWriteIORequest", "SyncIORequest"}) =>
        /\ (Rq.errno = None) # (Rq.returned_size = None)
        /\ LastRet < 0 => (Rq.errno # None /\ Rq.returned_size = None)
        /\ LastRet >= 0 =>
               (Rq.errno = None /\ Rq.returned_size = Some(LastRet))
        /\ (LastRet < 0 /\ NoEntrySize) => Rq.size = None

C19_Witness ==
    /\ ExitedOnce
    /\ Rq.cls = "ReadWriteIORequest"
    /\ NoEntrySize
    /\ LastRet = -2
    /\ Rq.errno = Some(2)
    /\ Rq.returned_size = None
    /\ Rq.size = None

====
